---- MODULE Spec2Model ----
(***************************************************************************)
(* SNPrank (src/snprank.py): main() opens the input and output files,      *)
(* loads a GAIN matrix, runs calculate_snprank (damped power iteration)    *)
(* and writes the sorted table with print_to_file.                         *)
(*                                                                         *)
(* Numbers.  The GAIN weights of the model are whole numbers.  Every       *)
(* float64 derived from them (D, T_nz, T, r, gamma) is a fixed-point       *)
(* number counted in units of 1/Scale; each arithmetic operation           *)
(* truncates its result to that resolution, as a float operation rounds    *)
(* its result.  NaN is the one non-finite value the model needs: with      *)
(* non-negative weights a zero trace forces a zero diagonal, so the only   *)
(* division by zero is 0/0.                                                *)
(***************************************************************************)
EXTENDS Integers, Sequences, FiniteSets, TLC

VARIABLES
    pc,        \* position in main() / calculate_snprank()
    gamma,     \* options.gamma as a fixed-point number
    inErr,     \* errno class of open(options.infile):  "none", "ENOENT", "other"
    outErr,    \* errno class of open(options.outfile): "none", "ENOENT", "other"
    console,   \* what main() printed (diagnostic, usage help)
    returned,  \* <<>> while main() runs, <<status>> once it has returned
    raised,    \* the exception that left main(), "none" otherwise
    calls,     \* the components main() has invoked so far
    SNPs,      \* self.SNPs, the header row
    GAIN,      \* self.GAIN, a sequence of rows
    colsum, D, T_nz, T, r, r_old,   \* locals of calculate_snprank (<<>>: not computed)
    GD,        \* the product dot(GAIN,D) (<<>>: not computed)
    Tr,        \* the product dot(T,r) of the pass under way (<<>> between passes)
    snprank, IG,                    \* what calculate_snprank returned
    output     \* the rows written to the output file

vars == <<pc, gamma, inErr, outErr, console, returned, raised, calls, SNPs, GAIN,
          colsum, D, T_nz, GD, T, r, r_old, Tr, snprank, IG, output>>

(***************************************************************************)
(* Bounds of the model.                                                    *)
(***************************************************************************)
MaxN == 2      \* rows and columns of the input matrix are in 1..MaxN
MaxVal == 2    \* every weight of the input matrix is in 0..MaxVal
MaxSum == 6    \* the weights of the input matrix sum to at most MaxSum
MaxLen == 3    \* length of the sequences handed to print_to_file on its own

(***************************************************************************)
(* Fixed-point arithmetic with NaN.                                        *)
(***************************************************************************)
Scale == 1000000

NaN == 0 - 2000 * Scale

IsNaN(x) == x = NaN

\* floor(a * b / Scale) without leaving 32 bits
MulS(a, b) ==
    LET k == 1000
        a1 == a \div k
        a0 == a % k
        p == a1 * b
    IN  (p \div k) + (((p % k) * k + a0 * b) \div Scale)

\* floor(a * Scale / c) for c > 0 without leaving 32 bits
DivS(a, c) ==
    LET k == 1000
        q1 == (a * k) \div c
        r1 == (a * k) % c
    IN  q1 * k + ((r1 * k) \div c)

FAdd(a, b) == IF IsNaN(a) \/ IsNaN(b) THEN NaN ELSE a + b

FSub(a, b) == IF IsNaN(a) \/ IsNaN(b) THEN NaN ELSE a - b

FAbs(a) == IF IsNaN(a) THEN NaN ELSE IF a < 0 THEN 0 - a ELSE a

\* fixed-point number divided by a whole number; 0/0 is nan
FDivInt(x, d) == IF IsNaN(x) \/ d = 0 THEN NaN ELSE x \div d

\* quotient of two fixed-point numbers; 0/0 is nan
FDiv(x, c) ==
    IF IsNaN(x) \/ IsNaN(c) \/ c = 0 THEN NaN
    ELSE IF c < 0 THEN DivS(0 - x, 0 - c) ELSE DivS(x, c)

\* every comparison with nan is False
FLess(a, b) == ~IsNaN(a) /\ ~IsNaN(b) /\ a < b

\* no entry of xs is nan
Finite(xs) == \A i \in 1..Len(xs) : ~IsNaN(xs[i])

\* xs[1] + ... + xs[n]
RECURSIVE IntSumTo(_, _)
IntSumTo(xs, n) == IF n = 0 THEN 0 ELSE IntSumTo(xs, n - 1) + xs[n]

\* sum of whole numbers
IntSum(xs) == IntSumTo(xs, Len(xs))

\* sum of fixed-point numbers: nan as soon as one term is nan
FSum(xs) == IF Finite(xs) THEN IntSumTo(xs, Len(xs)) ELSE NaN

(***************************************************************************)
(* normalize and the pieces of calculate_snprank.                          *)
(***************************************************************************)
NormalizeByMax(xs) ==
    LET m == CHOOSE x \in {xs[i] : i \in 1..Len(xs)} :
                 \A i \in 1..Len(xs) : xs[i] <= x
    IN  [i \in 1..Len(xs) |-> FDiv(xs[i], m)]

normalize(xs) ==
    CHOOSE v \in {[i \in 1..Len(xs) |-> FDiv(xs[i], s)] : s \in {FSum(xs)}} : TRUE

Rows(G) == Len(G)

Cols(G) == Len(G[1])

ShapeMismatchLoose(G) == Rows(G) > Cols(G)

\* m != n
ShapeMismatch(G) == Rows(G) # Cols(G)

RowSums(G) == [j \in 1..Cols(G) |-> IntSum(G[j])]

\* G[1][j] + ... + G[m][j]
RECURSIVE ColumnSumTo(_, _, _)
ColumnSumTo(G, j, m) == IF m = 0 THEN 0 ELSE ColumnSumTo(G, j, m - 1) + G[m][j]

\* self.GAIN.sum(axis=0)
ColSums(G) == [j \in 1..Cols(G) |-> ColumnSumTo(G, j, Rows(G))]

\* self.GAIN.diagonal()
Diagonal(G) == [i \in 1..Rows(G) |-> G[i][i]]

\* G[1][1] + ... + G[n][n]
RECURSIVE TraceTo(_, _)
TraceTo(G, n) == IF n = 0 THEN 0 ELSE TraceTo(G, n - 1) + G[n][n]

\* self.GAIN.trace()
Trace(G) == TraceTo(G, Rows(G))

\* D: zeros((n,n)) with 1/colsum[i] on the diagonal where colsum[i] is not zero
BuildD(cs) ==
    [i \in 1..Len(cs) |-> [j \in 1..Len(cs) |->
        IF i = j /\ cs[i] # 0 THEN Scale \div cs[i] ELSE 0]]

TnzAllDamped(cs, g) == [j \in 1..Len(cs) |-> Scale - g]

TnzSignSlip(cs, g) == [j \in 1..Len(cs) |-> IF cs[j] # 0 THEN g - Scale ELSE Scale]

\* T_nz: ones(n) with 1 - gamma where colsum[i] is not zero
BuildTnz(cs, g) == [j \in 1..Len(cs) |-> IF cs[j] # 0 THEN Scale - g ELSE Scale]

\* G[i][1]*d[1][j] + ... + G[i][n]*d[n][j]; the weights and D are finite
RECURSIVE DotGDTo(_, _, _, _, _)
DotGDTo(G, d, i, j, n) ==
    IF n = 0 THEN 0 ELSE DotGDTo(G, d, i, j, n - 1) + G[i][n] * d[n][j]

\* dot(self.GAIN, D)
DotGD(G, d) ==
    [i \in 1..Rows(G) |-> [j \in 1..Len(d) |-> DotGDTo(G, d, i, j, Cols(G))]]

\* (gamma * dot(GAIN, D)) + (GAIN.diagonal().reshape(n,1) * T_nz) / GAIN.trace()
BuildT(G, gd, tnz, g) ==
    [i \in 1..Cols(G) |-> [j \in 1..Cols(G) |->
        FAdd(MulS(g, gd[i][j]),
             FDivInt(G[i][i] * tnz[j], Trace(G)))]]

\* t[i][1]*x[1] + ... + t[i][n]*x[n] for finite terms
RECURSIVE DotTrTo(_, _, _, _)
DotTrTo(t, x, i, n) ==
    IF n = 0 THEN 0 ELSE DotTrTo(t, x, i, n - 1) + MulS(t[i][n], x[n])

\* dot(T, r): an entry is nan as soon as one of its terms is nan
DotTr(t, x) ==
    [i \in 1..Len(t) |->
        IF Finite(t[i]) /\ Finite(x) THEN DotTrTo(t, x, i, Len(x)) ELSE NaN]

InitialRFirstNode(n) == [i \in 1..n |-> IF i = 1 THEN Scale ELSE 0]

\* (ones(n)).reshape(n,1)/n
InitialR(n) == [i \in 1..n |-> Scale \div n]

thresholdCoarse == Scale \div 1000

\* threshold = 10**(-4)
threshold == Scale \div 10000

\* all( abs(r-r_old) < threshold )
Converged(x, y) ==
    \A i \in 1..Len(x) : FLess(FAbs(FSub(x[i], y[i])), threshold)

(***************************************************************************)
(* print_to_file: zip, sorted(..., key=item[1], reverse=True), "%.6f".     *)
(***************************************************************************)
Min2(a, b) == IF a < b THEN a ELSE b

\* zip(SNPs, snp_rank, ig) stops at the shortest sequence
Zip3(a, b, c) ==
    [i \in 1..Min2(Len(a), Min2(Len(b), Len(c))) |-> <<a[i], b[i], c[i]>>]

PositionDescTiesReversed(items, i) ==
    1 + Cardinality({j \in 1..Len(items) :
            \/ items[j][2] > items[i][2]
            \/ items[j][2] = items[i][2] /\ j > i})

\* where sorted(..., reverse=True) puts items[i]: after every item with a larger
\* key and, the sort being stable, after the earlier items with the same key
PositionDesc(items, i) ==
    1 + Cardinality({j \in 1..Len(items) :
            \/ items[j][2] > items[i][2]
            \/ items[j][2] = items[i][2] /\ j < i})

\* sorted(items, key=lambda item:item[1], reverse=True)
SortedDesc(items) ==
    [k \in 1..Len(items) |->
        items[CHOOSE i \in 1..Len(items) : PositionDesc(items, i) = k]]

\* "%.6f": the whole part and the six decimals of a fixed-point number
Format6(x) == <<x \div Scale, x % Scale>>

\* "%s\t%.6f\t%.6f\n" % (name, score, ig); ig is a whole number
FormatRow(item) == <<item[1], Format6(item[2]), Format6(item[3] * Scale)>>

HeaderRow == <<"SNP", "SNPrank", "IG">>

(***************************************************************************)
(* Inputs of a run.                                                        *)
(***************************************************************************)
\* parser default for --gamma, in hundredths
DefaultGammaPct == 85

\* the damping factors the runs are given: 0 and the default .85
GammaSet == {0, (DefaultGammaPct * Scale) \div 100}

NameList == <<"S1", "S2", "S3", "S4", "S5">>

OpenOutcome == {"none", "ENOENT", "other"}

\* scores handed to print_to_file on its own: 0.1, 0.5, 0.9
ScoreSet == {Scale \div 10, Scale \div 2, (9 * Scale) \div 10}

\* total weight of the rows read so far
RECURSIVE WeightTo(_, _)
WeightTo(G, m) == IF m = 0 THEN 0 ELSE WeightTo(G, m - 1) + IntSum(G[m])

Weight(G) == WeightTo(G, Len(G))

Init ==
    /\ pc = "open_in"
    /\ gamma \in GammaSet
    /\ inErr = "none" /\ outErr = "none"
    /\ console = <<>> /\ returned = <<>> /\ raised = "none" /\ calls = {}
    /\ SNPs = <<>> /\ GAIN = <<>>
    /\ colsum = <<>> /\ D = <<>> /\ T_nz = <<>> /\ T = <<>> /\ r = <<>> /\ r_old = <<>>
    /\ GD = <<>> /\ Tr = <<>>
    /\ snprank = <<>> /\ IG = <<>>
    /\ output = <<>>

(***************************************************************************)
(* main()                                                                  *)
(***************************************************************************)
ReRaisedNever(e) == FALSE

\* if err.errno != 2: raise err
ReRaised(e) == e # "ENOENT"

\* infile = open(options.infile, 'r') and its except clause
OpenIn ==
    /\ pc = "open_in"
    /\ \E e \in OpenOutcome :
        /\ inErr' = e
        /\ IF e = "none"
           THEN /\ pc' = "open_out"
                /\ UNCHANGED <<console, returned, raised>>
           ELSE IF ReRaised(e)
           THEN /\ raised' = "IOError"
                /\ pc' = "exit"
                /\ UNCHANGED <<console, returned>>
           ELSE /\ console' = console \o <<"Error: Input file could not be opened.", "help">>
                /\ returned' = <<1>>
                /\ pc' = "exit"
                /\ UNCHANGED raised
    /\ UNCHANGED <<gamma, outErr, calls, SNPs, GAIN, colsum, D, T_nz, T, r, r_old,
                   snprank, IG, output, Tr, GD>>

\* outfile = open(options.outfile, 'w') and its except clause
OpenOut ==
    /\ pc = "open_out"
    /\ \E e \in OpenOutcome :
        /\ outErr' = e
        /\ IF e = "none"
           THEN /\ pc' = "load"
                /\ UNCHANGED <<console, returned, raised>>
           ELSE IF ReRaised(e)
           THEN /\ raised' = "IOError"
                /\ pc' = "exit"
                /\ UNCHANGED <<console, returned>>
           ELSE /\ console' = console \o <<"Error: Output file could not be opened.", "help">>
                /\ returned' = <<1>>
                /\ pc' = "exit"
                /\ UNCHANGED raised
    /\ UNCHANGED <<gamma, inErr, calls, SNPs, GAIN, colsum, D, T_nz, T, r, r_old,
                   snprank, IG, output, Tr, GD>>

\* SNPrank(infile): self.SNPs = reader.next()
LoadHeader ==
    /\ pc = "load"
    /\ calls' = calls \cup {"loader"}
    /\ \E n \in 1..MaxN : SNPs' = SubSeq(NameList, 1, n)
    /\ pc' = "load_rows"
    /\ UNCHANGED <<gamma, inErr, outErr, console, returned, raised, GAIN, colsum, D,
                   T_nz, T, r, r_old, snprank, IG, output, Tr, GD>>

\* one more row of [row for row in reader]
LoadRow ==
    /\ pc = "load_rows"
    /\ Len(GAIN) < MaxN
    /\ \E row \in [1..Len(SNPs) -> 0..MaxVal] :
        /\ Weight(GAIN) + IntSum(row) <= MaxSum
        /\ GAIN' = Append(GAIN, row)
    /\ UNCHANGED <<pc, gamma, inErr, outErr, console, returned, raised, calls, SNPs,
                   colsum, D, T_nz, T, r, r_old, snprank, IG, output, Tr, GD>>

\* the reader is exhausted; infile.close()
LoadEnd ==
    /\ pc = "load_rows"
    /\ Len(GAIN) >= 1
    /\ pc' = "calc"
    /\ UNCHANGED <<gamma, inErr, outErr, console, returned, raised, calls, SNPs, GAIN,
                   colsum, D, T_nz, T, r, r_old, snprank, IG, output, Tr, GD>>

(***************************************************************************)
(* calculate_snprank(gamma, usegpu) on the CPU path                        *)
(***************************************************************************)
\* m,n = self.GAIN.shape; if m != n: raise ValueError
CalcShape ==
    /\ pc = "calc"
    /\ calls' = calls \cup {"engine"}
    /\ IF ShapeMismatch(GAIN)
       THEN raised' = "ValueError" /\ pc' = "exit"
       ELSE raised' = raised /\ pc' = "build_d"
    /\ UNCHANGED <<gamma, inErr, outErr, console, returned, SNPs, GAIN, colsum, D,
                   T_nz, T, r, r_old, snprank, IG, output, Tr, GD>>

\* colsum, D and T_nz
CalcDerive ==
    /\ pc = "build_d"
    /\ colsum' = ColSums(GAIN)
    /\ D' = BuildD(colsum')
    /\ T_nz' = BuildTnz(colsum', gamma)
    /\ pc' = "build_t"
    /\ UNCHANGED <<gamma, inErr, outErr, console, returned, raised, calls, SNPs, GAIN,
                   T, r, r_old, snprank, IG, output, Tr, GD>>

\* T = zeros((n,n)); the transition matrix
CalcT ==
    /\ pc = "build_t"
    /\ GD' = DotGD(GAIN, D)
    /\ T' = BuildT(GAIN, GD', T_nz, gamma)
    /\ pc' = "init_r"
    /\ UNCHANGED <<gamma, inErr, outErr, console, returned, raised, calls, SNPs, GAIN,
                   colsum, D, T_nz, r, r_old, snprank, IG, output, Tr>>

\* r = (ones(n)).reshape(n,1)/n
CalcInitR ==
    /\ pc = "init_r"
    /\ r' = InitialR(Cols(GAIN))
    /\ pc' = "loop"
    /\ UNCHANGED <<gamma, inErr, outErr, console, returned, raised, calls, SNPs, GAIN,
                   colsum, D, T_nz, T, r_old, snprank, IG, output, Tr, GD>>

\* a pass of the while True loop, first half: dot(T,r)
CalcDot ==
    /\ pc = "loop"
    /\ Tr' = DotTr(T, r)
    /\ pc' = "norm"
    /\ UNCHANGED <<gamma, inErr, outErr, console, returned, raised, calls, SNPs, GAIN,
                   colsum, D, T_nz, GD, T, r, r_old, snprank, IG, output>>

\* second half: r_old, r = r, normalize(...); break when all(abs(r-r_old) < threshold)
CalcNormalize ==
    /\ pc = "norm"
    /\ r_old' = r
    /\ r' = normalize(Tr)
    /\ Tr' = <<>>
    /\ pc' = IF Converged(r', r_old') THEN "ret" ELSE "loop"
    /\ UNCHANGED <<gamma, inErr, outErr, console, returned, raised, calls, SNPs, GAIN,
                   colsum, D, T_nz, GD, T, snprank, IG, output>>

\* return r.reshape(1,n)[0], self.GAIN.diagonal()
CalcReturn ==
    /\ pc = "ret"
    /\ snprank' = r
    /\ IG' = Diagonal(GAIN)
    /\ pc' = "print"
    /\ UNCHANGED <<gamma, inErr, outErr, console, returned, raised, calls, SNPs, GAIN,
                   colsum, D, T_nz, T, r, r_old, output, Tr, GD>>

(***************************************************************************)
(* print_to_file(SNPs, snp_rank, ig, output)                               *)
(***************************************************************************)
PrintToFile ==
    /\ pc = "print"
    /\ calls' = calls \cup {"formatter"}
    /\ \E zipped \in {Zip3(SNPs, snprank, IG)} :
       \E sort_temp \in {SortedDesc(zipped)} :
          output' = output \o <<HeaderRow>>
                      \o [i \in 1..Len(sort_temp) |-> FormatRow(sort_temp[i])]
    /\ pc' = "close"
    /\ UNCHANGED <<gamma, inErr, outErr, console, returned, raised, SNPs, GAIN, colsum,
                   D, T_nz, T, r, r_old, snprank, IG, Tr, GD>>

\* outfile.close(); return 0
MainReturn ==
    /\ pc = "close"
    /\ returned' = <<0>>
    /\ pc' = "exit"
    /\ UNCHANGED <<gamma, inErr, outErr, console, raised, calls, SNPs, GAIN, colsum, D,
                   T_nz, T, r, r_old, snprank, IG, output, Tr, GD>>

Next ==
    \/ OpenIn
    \/ OpenOut
    \/ LoadHeader
    \/ LoadRow
    \/ LoadEnd
    \/ CalcShape
    \/ CalcDerive
    \/ CalcT
    \/ CalcInitR
    \/ CalcDot
    \/ CalcNormalize
    \/ CalcReturn
    \/ PrintToFile
    \/ MainReturn

Spec == Init /\ [][Next]_vars

\* main() is one thread that runs each statement it reaches
LiveSpec == Spec /\ WF_vars(Next)

(***************************************************************************)
(* print_to_file on its own: any three sequences of one length.            *)
(***************************************************************************)
SortInit ==
    /\ pc = "print"
    /\ gamma \in GammaSet
    /\ inErr = "none" /\ outErr = "none"
    /\ console = <<>> /\ returned = <<>> /\ raised = "none" /\ calls = {}
    /\ GAIN = <<>>
    /\ colsum = <<>> /\ D = <<>> /\ T_nz = <<>> /\ T = <<>> /\ r = <<>> /\ r_old = <<>>
    /\ GD = <<>> /\ Tr = <<>>
    /\ \E n \in 0..MaxLen :
        /\ SNPs = SubSeq(NameList, 1, n)
        /\ snprank \in [1..n -> ScoreSet]
        /\ IG \in [1..n -> 0..MaxVal]
    /\ output = <<>>

SortNext == PrintToFile \/ MainReturn

SortSpec == SortInit /\ [][SortNext]_vars

(***************************************************************************)
(* Vocabulary of the properties.                                           *)
(***************************************************************************)
\* the loader has finished and calculate_snprank has its matrix
Loaded == pc \notin {"open_in", "open_out", "load", "load_rows"} /\ GAIN # <<>>

Square == Rows(GAIN) = Cols(GAIN)

NonNegative == \A i \in 1..Rows(GAIN) : \A j \in 1..Cols(GAIN) : GAIN[i][j] >= 0

\* square non-negative G with trace > 0, gamma in [0,1)
ValidInput ==
    /\ Loaded /\ Square /\ NonNegative
    /\ Trace(GAIN) > 0
    /\ 0 <= gamma /\ gamma < Scale

\* sum of column j of a matrix of whole numbers or of fixed-point numbers
ColumnTotal(M, j) == FSum([i \in 1..Len(M) |-> M[i][j]])

\* a vector of n truncated quotients sums to 1 up to n units of 1/Scale
SumsToOne(xs) ==
    /\ Finite(xs)
    /\ Scale - Len(xs) <= FSum(xs)
    /\ FSum(xs) <= Scale

AbsDiff(a, b) == IF a < b THEN b - a ELSE a - b

\* max_i |x[i] - y[i]| < 1e-4
WithinTolerance(x, y) ==
    /\ Finite(x) /\ Finite(y)
    /\ \A i \in 1..Len(x) : AbsDiff(x[i], y[i]) < Scale \div 10000

IndexPermutations(n) ==
    {p \in [1..n -> 1..n] : \A i, j \in 1..n : p[i] = p[j] => i = j}

Half == Scale \div 2

(***************************************************************************)
(* C1.  A matrix whose row count differs from its column count makes       *)
(* calculate_snprank raise the shape error before colsum, D, T_nz, T or r  *)
(* is computed, and the run writes neither the header row nor a data row.  *)
(***************************************************************************)
C1_NonSquareRaisesFirst ==
    (Loaded /\ ~Square) =>
        /\ pc \in {"calc", "exit"}
        /\ pc = "exit" => (raised = "ValueError" /\ returned = <<>>)
        /\ colsum = <<>> /\ D = <<>> /\ T_nz = <<>> /\ GD = <<>> /\ T = <<>>
        /\ r = <<>> /\ r_old = <<>> /\ snprank = <<>>
        /\ output = <<>>

C1_Witness ==
    /\ Loaded /\ ~Square
    /\ pc = "exit" /\ raised = "ValueError"
    /\ "engine" \in calls

(***************************************************************************)
(* C2.  For a square matrix with trace 0 calculate_snprank ends in an      *)
(* explicit arithmetic error: the iteration loop is never entered with a   *)
(* non-finite transition matrix and no rank vector holding NaN is          *)
(* produced.                                                               *)
(***************************************************************************)
C2_ZeroTraceIsFatal ==
    (Loaded /\ Square /\ Trace(GAIN) = 0) =>
        /\ pc = "loop" => \A i \in 1..Len(T) : Finite(T[i])
        /\ Finite(r)
        /\ Finite(snprank)

(***************************************************************************)
(* C3.  For valid input the rank vector sums to 1 (to the resolution of    *)
(* the arithmetic) when it is initialised, after every normalize(T.r)      *)
(* step, and in the vector calculate_snprank returns.                      *)
(***************************************************************************)
C3_RankSumsToOne ==
    ValidInput =>
        /\ r # <<>> => SumsToOne(r)
        /\ r_old # <<>> => SumsToOne(r_old)
        /\ snprank # <<>> => SumsToOne(snprank)

C3_Witness ==
    /\ ValidInput
    /\ pc = "print"
    /\ Len(snprank) = 2
    /\ snprank[1] # snprank[2]
    /\ r_old # InitialR(2)

(***************************************************************************)
(* C4.  For valid input every entry of the rank vector is >= 0 at every    *)
(* iteration of the loop and in the returned vector.                       *)
(***************************************************************************)
C4_RankNonNegative ==
    ValidInput =>
        /\ Finite(r) /\ \A i \in 1..Len(r) : r[i] >= 0
        /\ Finite(snprank) /\ \A i \in 1..Len(snprank) : snprank[i] >= 0

C4_Witness ==
    /\ ValidInput
    /\ pc = "print"
    /\ r_old # <<>>
    /\ \E i \in 1..Len(snprank) : snprank[i] = 0

(***************************************************************************)
(* C5.  The data rows print_to_file writes are a permutation of the        *)
(* tuples (names[i], scores[i], diagonal[i]), ordered by score             *)
(* non-increasing, tuples of equal score keeping their input order;        *)
(* scores 0.5, 0.9, 0.1 give the order second, first, third.               *)
(***************************************************************************)
C5_StableDescendingRows ==
    pc = "close" =>
        LET items == Zip3(SNPs, snprank, IG)
            n == Len(items)
            rows == Tail(output)
        IN  /\ Head(output) = HeaderRow
            /\ Len(rows) = n
            /\ \E p \in IndexPermutations(n) :
                /\ \A i \in 1..n : rows[i] = FormatRow(items[p[i]])
                /\ \A i, j \in 1..n :
                      i < j =>
                        \/ snprank[p[i]] > snprank[p[j]]
                        \/ snprank[p[i]] = snprank[p[j]] /\ p[i] < p[j]
            /\ (n = 3 /\ snprank = <<Half, (9 * Scale) \div 10, Scale \div 10>>) =>
                  <<rows[1][1], rows[2][1], rows[3][1]>> = <<SNPs[2], SNPs[1], SNPs[3]>>

C5_Witness ==
    /\ pc = "close"
    /\ Len(SNPs) = 3
    /\ snprank = <<Half, (9 * Scale) \div 10, Half>>
    /\ IG = <<1, 2, 0>>
    /\ Len(output) = 4
    /\ output[3][1] = SNPs[1] /\ output[4][1] = SNPs[3]

(***************************************************************************)
(* C6.  For a 2-node matrix [[a,b],[b,a]] with a > 0 and b >= 0            *)
(* calculate_snprank terminates and returns the score 0.5 for both nodes   *)
(* together with the diagonal [a, a].                                      *)
(***************************************************************************)
SymmetricPair ==
    /\ Loaded /\ Rows(GAIN) = 2 /\ Square
    /\ GAIN[1][1] = GAIN[2][2] /\ GAIN[1][1] > 0
    /\ GAIN[1][2] = GAIN[2][1]

C6_SymmetricPairGetsHalf ==
    (pc = "calc" /\ SymmetricPair) ~>
        (pc = "print" /\ snprank = <<Half, Half>> /\ IG = <<GAIN[1][1], GAIN[1][1]>>)

C6_Witness ==
    /\ pc = "print"
    /\ GAIN = <<<<2, 1>>, <<1, 2>>>>
    /\ gamma = (DefaultGammaPct * Scale) \div 100
    /\ snprank = <<Half, Half>> /\ IG = <<2, 2>>

(***************************************************************************)
(* C7.  A file-not-found on either open prints a diagnostic and the usage  *)
(* help and returns a non-zero status without invoking the loader, the     *)
(* rank engine or the formatter; any other I/O error is re-raised; status  *)
(* 0 is returned only after print_to_file has completed.                   *)
(***************************************************************************)
C7_OpenFailures ==
    /\ (inErr = "ENOENT" \/ outErr = "ENOENT") =>
          /\ pc = "exit" /\ raised = "none"
          /\ Len(returned) = 1 /\ returned[1] # 0
          /\ Len(console) = 2 /\ console[2] = "help"
          /\ console[1] = (IF inErr = "ENOENT"
                           THEN "Error: Input file could not be opened."
                           ELSE "Error: Output file could not be opened.")
          /\ calls = {} /\ output = <<>>
    /\ (inErr = "other" \/ outErr = "other") =>
          /\ pc = "exit" /\ raised = "IOError"
          /\ returned = <<>> /\ console = <<>>
          /\ calls = {} /\ output = <<>>
    /\ returned = <<0>> =>
          /\ "formatter" \in calls
          /\ output # <<>> /\ Head(output) = HeaderRow

C7_Witness ==
    /\ inErr = "none" /\ outErr = "ENOENT"
    /\ pc = "exit" /\ returned = <<1>>

(***************************************************************************)
(* C8.  For every column j of a square G: if the column sums to exactly 0  *)
(* then D[j][j] = 0 and T_nz[j] = 1, otherwise D[j][j] = 1/colsum[j] and   *)
(* T_nz[j] = 1 - gamma; every off-diagonal entry of D is 0.                *)
(***************************************************************************)
C8_DanglingColumns ==
    (Loaded /\ Square /\ colsum # <<>>) =>
        /\ Len(D) = Cols(GAIN) /\ Len(T_nz) = Cols(GAIN)
        /\ \A j \in 1..Cols(GAIN) :
            LET cs == ColumnTotal(GAIN, j)
            IN  /\ cs = 0 => (D[j][j] = 0 /\ T_nz[j] = Scale)
                /\ cs # 0 =>
                      /\ D[j][j] * cs <= Scale
                      /\ Scale < (D[j][j] + 1) * cs
                      /\ T_nz[j] = Scale - gamma
                /\ \A i \in 1..Cols(GAIN) : i # j => D[i][j] = 0

C8_Witness ==
    /\ Loaded /\ Square /\ pc = "build_t"
    /\ \E j \in 1..Cols(GAIN) : ColumnTotal(GAIN, j) = 0 /\ D[j][j] = 0
    /\ \E j \in 1..Cols(GAIN) : ColumnTotal(GAIN, j) > 1 /\ D[j][j] > 0
    /\ gamma > 0

(***************************************************************************)
(* C9.  For valid input the transition matrix T is column-stochastic:      *)
(* every entry is >= 0 and every column sums to 1 (to the resolution of    *)
(* the arithmetic), for columns with nonzero sum and for dangling columns. *)
(* Each of the n entries of a column is the sum of two truncated terms,    *)
(* and the truncated 1/colsum[j] is counted colsum[j] times.               *)
(***************************************************************************)
C9_ColumnStochastic ==
    (ValidInput /\ T # <<>>) =>
        \A j \in 1..Cols(GAIN) :
            /\ \A i \in 1..Cols(GAIN) : ~IsNaN(T[i][j]) /\ T[i][j] >= 0
            /\ ColumnTotal(T, j) <= Scale
            /\ ColumnTotal(T, j) >= Scale - (2 * Cols(GAIN) + ColumnTotal(GAIN, j))

C9_Witness ==
    /\ ValidInput /\ pc = "init_r"
    /\ gamma > 0
    /\ \E j \in 1..Cols(GAIN) : ColumnTotal(GAIN, j) = 0
    /\ \E j \in 1..Cols(GAIN) : ColumnTotal(GAIN, j) > 0

====
